---- MODULE Spec2Model ----
(***************************************************************************)
(* State-machine model of UltimateGame (src/game.js): players, disc,       *)
(* disc flight, catch detection, throwing, click-to-move, the positioning  *)
(* operations and the heat-map compositor's control flow.                  *)
(*                                                                         *)
(* Numbers.  A JavaScript number is modelled as an integer count of        *)
(* 1/UnitsPerYard yards (positions), of 1/UnitsPerYard yards per second    *)
(* (velocities), or as the value NaN.  Arithmetic and comparisons follow   *)
(* IEEE rules for NaN: every operation with a NaN operand is NaN, every    *)
(* comparison with a NaN operand is false.  Time steps are in              *)
(* milliseconds.  Products are rounded toward zero.                        *)
(***************************************************************************)
EXTENDS Integers, Sequences, FiniteSets, TLC

VARIABLES
    players,                \* this.players
    disc,                   \* this.disc
    heatMapModesEnabled,    \* this.heatMapModesEnabled
    heatMapNormalize,       \* this.heatMapNormalize
    lastOp,                 \* the operation called last
    ret,                    \* what that call returned
    nOps,                   \* calls made so far, update() ticks aside
    flightTicks,            \* update() ticks of the current flight
    session                 \* this.isRunning, this.selectedPlayer, the scores and
                            \* this.heatMapGridSize

vars == << players, disc, heatMapModesEnabled, heatMapNormalize, lastOp, ret,
           nOps, flightTicks, session >>

entityVars == << players, disc >>
heatVars == << heatMapModesEnabled, heatMapNormalize >>
countVars == << nOps, flightTicks >>

-----------------------------------------------------------------------------
(* Bounds of the model *)

\* calls of the game's operations other than update() in one behaviour
MaxOps == 3
\* update() ticks of one flight
MaxFlightTicks == 2
\* entity operations in one behaviour of the heat-map specification
MaxHeatOps == 1
\* throws in one behaviour of the flight specification
MaxFairOps == 1
\* calls other than update(), scalar field function calls included
MaxFieldOps == 2
\* throwDisc and catchDisc calls in a run of throws and catches
MaxThrowOps == 3
\* calls other than update() and the heat-map getters around a heat-map call
MaxGridOps == 2
\* calls other than update() and the sum getter around a positioning search
MaxSearchOps == 2
\* throws and catches before a positioning search without a thrower
MaxIdleOps == 1
\* calls other than update() around a disc at rest without a holder
MaxInertOps == 2
\* calls other than update() before a reset
MaxResetOps == 2
\* toggles and other calls before a positioning search
MaxToggledOps == 1

(* Resolution of the fixed-point numbers *)
UnitsPerYard == 10 * 10

-----------------------------------------------------------------------------
(* Program constants *)

fieldLength == 70
fieldWidth == 40
endZoneDepth == 20
totalLength == fieldLength + (endZoneDepth * 2)
catchRadius == 2
defaultSpeed == 30
dragPercent == 98
heatMapGridSize == 1
radiusYards == 5
stackOffset == 20

(* 0.1 yards per second: the landing threshold of update() *)
stopThreshold == UnitsPerYard \div 10

NULL == 0
NaN == -1000000

-----------------------------------------------------------------------------
(* Number helpers *)

IsNaN(v) == v = NaN

Abs(v) == IF v < 0 THEN -v ELSE v

\* integer division rounding toward zero, b > 0
TDiv(a, b) == IF a >= 0 THEN a \div b ELSE -((-a) \div b)

NSub(a, b) == IF IsNaN(a) \/ IsNaN(b) THEN NaN ELSE a - b

\* Math.max(lo, Math.min(hi, v)): NaN stays NaN
Clamp(lo, hi, v) ==
    IF IsNaN(v) THEN NaN
    ELSE LET m == IF hi < v THEN hi ELSE v
         IN  IF lo > m THEN lo ELSE m

RECURSIVE SqrtSearch(_, _, _)
SqrtSearch(n, lo, hi) ==
    IF lo >= hi THEN lo
    ELSE LET mid == (lo + hi + 1) \div 2
         IN  IF mid * mid <= n THEN SqrtSearch(n, mid, hi)
             ELSE SqrtSearch(n, lo, mid - 1)

\* floor of Math.sqrt(n), n >= 0
ISqrt(n) == SqrtSearch(n, 0, 46340)

-----------------------------------------------------------------------------
(* Entities *)

PlayerIds == 1..4

createExamplePlayers ==
    << [id |-> "offense_1", team |-> 1, x |-> 80 * UnitsPerYard, y |-> 15 * UnitsPerYard,
        hasDisc |-> TRUE, isDefender |-> FALSE, isMark |-> FALSE],
       [id |-> "mark_1", team |-> 2, x |-> 79 * UnitsPerYard, y |-> 16 * UnitsPerYard,
        hasDisc |-> FALSE, isDefender |-> TRUE, isMark |-> TRUE],
       [id |-> "offense_2", team |-> 1, x |-> 55 * UnitsPerYard, y |-> 15 * UnitsPerYard,
        hasDisc |-> FALSE, isDefender |-> FALSE, isMark |-> FALSE],
       [id |-> "defender_2", team |-> 2, x |-> 55 * UnitsPerYard, y |-> 14 * UnitsPerYard,
        hasDisc |-> FALSE, isDefender |-> TRUE, isMark |-> FALSE] >>

\* players.find(pred): index of the first player satisfying pred, NULL if none
FindPlayer(ps, Pred(_)) ==
    IF \E i \in PlayerIds : Pred(ps[i])
    THEN CHOOSE i \in PlayerIds : Pred(ps[i]) /\ \A j \in 1..(i - 1) : ~Pred(ps[j])
    ELSE NULL

HasDiscP(p) == p.hasDisc
OffenderP(p) == ~p.isDefender /\ ~p.hasDisc
DownfieldDefenderP(p) == p.isDefender /\ ~p.isMark

createDisc(ps) ==
    LET holder == FindPlayer(ps, HasDiscP)
    IN  [x |-> IF holder # NULL THEN ps[holder].x ELSE 80 * UnitsPerYard,
         y |-> IF holder # NULL THEN ps[holder].y ELSE 15 * UnitsPerYard,
         vx |-> 0, vy |-> 0, holder |-> holder, inFlight |-> FALSE]

initialize == [players |-> createExamplePlayers, disc |-> createDisc(createExamplePlayers)]

-----------------------------------------------------------------------------
(* catchDisc(player) *)

catchDisc(st, p) ==
    [players |-> [st.players EXCEPT ![p].hasDisc = TRUE],
     disc |-> [st.disc EXCEPT !.inFlight = FALSE, !.holder = p, !.vx = 0, !.vy = 0]]

\* distance < catchRadius, false when a coordinate is NaN
WithinCatchRadius(pl, d) ==
    /\ ~IsNaN(pl.x) /\ ~IsNaN(pl.y) /\ ~IsNaN(d.x) /\ ~IsNaN(d.y)
    /\ LET dx == pl.x - d.x
           dy == pl.y - d.y
           r == catchRadius * UnitsPerYard
       IN  dx * dx + dy * dy < r * r

\* the players.forEach of checkCatch, from player i on
RECURSIVE CatchLoop(_, _)
CatchLoop(st, i) ==
    IF i > Len(st.players) THEN st
    ELSE \* s is the state after player i's callback; the rest of the loop runs on it
         CHOOSE after \in { CatchLoop(s, i + 1) :
                              s \in { IF WithinCatchRadius(st.players[i], st.disc)
                                      THEN catchDisc(st, i) ELSE st } } : TRUE

checkCatch(st) == IF ~st.disc.inFlight THEN st ELSE CatchLoop(st, 1)

-----------------------------------------------------------------------------
(* update(deltaTime) *)

Integrate(pos, v, dt) == IF IsNaN(pos) \/ IsNaN(v) THEN NaN ELSE pos + TDiv(v * dt, 1000)

Drag(v) == IF IsNaN(v) THEN NaN ELSE TDiv(v * dragPercent, 100)

BelowStop(v) == ~IsNaN(v) /\ Abs(v) < stopThreshold

update(st, dt) ==
    LET d == st.disc
    IN  IF d.inFlight
        THEN LET vx1 == Drag(d.vx)
                 vy1 == Drag(d.vy)
                 landed == BelowStop(vx1) /\ BelowStop(vy1)
                 d1 == [d EXCEPT !.x = Integrate(d.x, d.vx, dt),
                                 !.y = Integrate(d.y, d.vy, dt),
                                 !.vx = IF landed THEN 0 ELSE vx1,
                                 !.vy = IF landed THEN 0 ELSE vy1,
                                 !.inFlight = ~landed]
             IN  checkCatch([st EXCEPT !.disc = d1])
        ELSE IF d.holder # NULL
        THEN [st EXCEPT !.disc = [d EXCEPT !.x = st.players[d.holder].x,
                                           !.y = st.players[d.holder].y]]
        ELSE st

-----------------------------------------------------------------------------
(* throwDisc(targetX, targetY, speed) *)

\* (delta / distance) * speed; 0/0 is NaN
Component(delta, distance, speed) ==
    IF IsNaN(delta) \/ IsNaN(distance) THEN NaN
    ELSE IF distance = 0 THEN NaN
    ELSE TDiv(delta * speed, distance)

Distance(dx, dy) == IF IsNaN(dx) \/ IsNaN(dy) THEN NaN ELSE ISqrt(dx * dx + dy * dy)

\* throwDisc variants used to test the properties: one that keeps the holder,
\* one that ignores a throw aimed at the disc's own position
throwDiscKeepingHolder(st, targetX, targetY, speed) ==
    LET d == st.disc
    IN  IF d.holder = NULL THEN st
        ELSE LET dx == NSub(targetX, d.x)
                 dy == NSub(targetY, d.y)
                 distance == Distance(dx, dy)
             IN  [players |-> [st.players EXCEPT ![d.holder].hasDisc = FALSE],
                  disc |-> [d EXCEPT !.vx = Component(dx, distance, speed),
                                     !.vy = Component(dy, distance, speed),
                                     !.inFlight = TRUE]]

throwDiscGuarded(st, targetX, targetY, speed) ==
    LET d == st.disc
    IN  IF d.holder = NULL THEN st
        ELSE LET dx == NSub(targetX, d.x)
                 dy == NSub(targetY, d.y)
                 distance == Distance(dx, dy)
             IN  IF distance = 0 THEN st
                 ELSE [players |-> [st.players EXCEPT ![d.holder].hasDisc = FALSE],
                       disc |-> [d EXCEPT !.vx = Component(dx, distance, speed),
                                          !.vy = Component(dy, distance, speed),
                                          !.inFlight = TRUE,
                                          !.holder = NULL]]

throwDisc(st, targetX, targetY, speed) ==
    LET d == st.disc
    IN  IF d.holder = NULL THEN st
        ELSE LET dx == NSub(targetX, d.x)
                 dy == NSub(targetY, d.y)
                 distance == Distance(dx, dy)
             IN  [players |-> [st.players EXCEPT ![d.holder].hasDisc = FALSE],
                  disc |-> [d EXCEPT !.vx = Component(dx, distance, speed),
                                     !.vy = Component(dy, distance, speed),
                                     !.inFlight = TRUE,
                                     !.holder = NULL]]

-----------------------------------------------------------------------------
(* movePlayerTo(player, fieldX, fieldY) *)

\* movePlayerTo variant used to test the properties: it stores the coordinates
\* as given
movePlayerToUnclamped(st, p, fieldX, fieldY) ==
    LET moved == [st.players EXCEPT ![p].x = fieldX, ![p].y = fieldY]
    IN  IF st.players[p].hasDisc /\ st.disc.holder = p
        THEN [players |-> moved, disc |-> [st.disc EXCEPT !.x = fieldX, !.y = fieldY]]
        ELSE [players |-> moved, disc |-> st.disc]

\* movePlayerTo variant used to test the properties: a player moved to within
\* the catch radius of a disc at rest without a holder picks it up
movePlayerToPickingUp(st, p, fieldX, fieldY) ==
    LET x == Clamp(0, totalLength * UnitsPerYard, fieldX)
        y == Clamp(0, fieldWidth * UnitsPerYard, fieldY)
        ps == [st.players EXCEPT ![p].x = x, ![p].y = y]
    IN  IF st.players[p].hasDisc /\ st.disc.holder = p
        THEN [players |-> ps, disc |-> [st.disc EXCEPT !.x = x, !.y = y]]
        ELSE IF st.disc.holder = NULL /\ ~st.disc.inFlight /\ WithinCatchRadius(ps[p], st.disc)
        THEN catchDisc([players |-> ps, disc |-> st.disc], p)
        ELSE [players |-> ps, disc |-> st.disc]

movePlayerTo(st, p, fieldX, fieldY) ==
    LET x == Clamp(0, totalLength * UnitsPerYard, fieldX)
        y == Clamp(0, fieldWidth * UnitsPerYard, fieldY)
        ps == [st.players EXCEPT ![p].x = x, ![p].y = y]
    IN  IF st.players[p].hasDisc /\ st.disc.holder = p
        THEN [players |-> ps, disc |-> [st.disc EXCEPT !.x = x, !.y = y]]
        ELSE [players |-> ps, disc |-> st.disc]

(* positionOffenderStack() *)
positionOffenderStack(st) ==
    LET offender == FindPlayer(st.players, OffenderP)
    IN  IF offender = NULL THEN st
        ELSE movePlayerTo(st, offender,
                          Clamp(0, totalLength * UnitsPerYard,
                                NSub(st.disc.x, stackOffset * UnitsPerYard)),
                          Clamp(0, fieldWidth * UnitsPerYard, (fieldWidth * UnitsPerYard) \div 2))

-----------------------------------------------------------------------------
(* Heat-map grid and the positioning searches *)

numCellsX == (totalLength + heatMapGridSize - 1) \div heatMapGridSize
numCellsY == (fieldWidth + heatMapGridSize - 1) \div heatMapGridSize

\* centre of grid cell c = <<xi, yi>>, in units
CellCenterX(c) == c[1] * heatMapGridSize * UnitsPerYard + (heatMapGridSize * UnitsPerYard) \div 2
CellCenterY(c) == c[2] * heatMapGridSize * UnitsPerYard + (heatMapGridSize * UnitsPerYard) \div 2

Thrower(st) == FindPlayer(st.players, HasDiscP)

\* The four-layer product is a number (neither Infinity nor NaN) exactly when a
\* thrower exists and the disc and thrower coordinates the layers read are numbers.
ProductIsNumber(st) ==
    LET t == Thrower(st)
    IN  /\ t # NULL
        /\ ~IsNaN(st.disc.x) /\ ~IsNaN(st.disc.y)
        /\ ~IsNaN(st.players[t].x) /\ ~IsNaN(st.players[t].y)

\* The searches of the model try every SearchStride-th row and column of the grid.
SearchStride == radiusYards - 1

Min(a, b) == IF a < b THEN a ELSE b
Max(a, b) == IF a > b THEN a ELSE b

\* the tried cells with column in lox..hix and row in loy..hiy
SearchCellsIn(lox, hix, loy, hiy) ==
    { << i * SearchStride, j * SearchStride >> :
        i \in ((Max(lox, 0) + SearchStride - 1) \div SearchStride)
                 ..(Min(hix, numCellsX - 1) \div SearchStride),
        j \in ((Max(loy, 0) + SearchStride - 1) \div SearchStride)
                 ..(Min(hiy, numCellsY - 1) \div SearchStride) }

SearchCells == SearchCellsIn(0, numCellsX - 1, 0, numCellsY - 1)

\* not (dx * dx + dy * dy > radiusSq): a NaN distance is not skipped
InSearchRadius(c, pl) ==
    \/ IsNaN(pl.x) \/ IsNaN(pl.y)
    \/ LET dx == CellCenterX(c) - pl.x
           dy == CellCenterY(c) - pl.y
           r == radiusYards * UnitsPerYard
       IN  dx * dx + dy * dy <= r * r

\* the tried cells whose centre is within radiusYards of player pl
CellsAround(pl) ==
    IF IsNaN(pl.x) \/ IsNaN(pl.y) THEN SearchCells
    ELSE LET cx == pl.x \div (heatMapGridSize * UnitsPerYard)
             cy == pl.y \div (heatMapGridSize * UnitsPerYard)
             cells == SearchCellsIn(cx - radiusYards - 1, cx + radiusYards,
                                    cy - radiusYards - 1, cy + radiusYards)
         IN  { c \in cells : InSearchRadius(c, pl) }

\* no cell: the search found no candidate
NoCell == << -1, -1 >>

\* candidate cells of positionDefenderOptimal at which the sum is a number
DefenderCandidates(st) ==
    LET dd == FindPlayer(st.players, DownfieldDefenderP)
        offender == FindPlayer(st.players, OffenderP)
    IN  IF dd = NULL \/ offender = NULL THEN {}
        ELSE { c \in CellsAround(st.players[offender]) :
                 ProductIsNumber(movePlayerTo(st, dd, CellCenterX(c), CellCenterY(c))) }

(* positionDefenderOptimal(): the defender ends at the candidate `best` with  *)
(* the least sum, or where it was when no candidate has a sum below Infinity  *)
(* (best = NoCell).  Which candidate has the least sum is left open: the      *)
(* caller passes any cell of DefenderCandidates.                              *)
positionDefenderOptimal(st, best) ==
    LET dd == FindPlayer(st.players, DownfieldDefenderP)
        offender == FindPlayer(st.players, OffenderP)
    IN  IF dd = NULL \/ offender = NULL THEN st
        ELSE IF best # NoCell
        THEN movePlayerTo(st, dd, CellCenterX(best), CellCenterY(best))
        ELSE movePlayerTo(st, dd, st.players[dd].x, st.players[dd].y)

OffenderCandidates(st) ==
    LET offender == FindPlayer(st.players, OffenderP)
    IN  IF offender = NULL \/ Thrower(st) = NULL \/ ~ProductIsNumber(st) THEN {}
        ELSE { << i * SearchStride * 10 + SearchStride * 5, SearchStride * 2 >> :
                 i \in 0..((numCellsX - 1 - SearchStride * 5) \div (SearchStride * 10)) }

(* positionOffenderOptimal(): the offender ends at the cell `best` with the   *)
(* highest product; which cell that is is left open.  The model tries the    *)
(* cells of OffenderCandidates.                                               *)
positionOffenderOptimal(st, best) ==
    LET offender == FindPlayer(st.players, OffenderP)
    IN  IF offender = NULL THEN st
        ELSE IF Thrower(st) = NULL THEN st
        ELSE IF best # NoCell
        THEN movePlayerTo(st, offender, CellCenterX(best), CellCenterY(best))
        ELSE movePlayerTo(st, offender, st.players[offender].x, st.players[offender].y)


-----------------------------------------------------------------------------
(* Heat-map compositor.  A layer's grid of values is represented by the      *)
(* entity data the layer's cell function reads: the cell arithmetic is a      *)
(* function of these and of the field constants only.                         *)

ModeKeys == {"catch", "difficulty", "markingDifficulty", "coverage"}

NoHeatMap == [isNull |-> TRUE]

isAnyHeatMapEnabled(enabled) ==
    enabled.catch \/ enabled.difficulty \/ enabled.markingDifficulty \/ enabled.coverage

Position(pl) == << pl.x, pl.y >>

PositionsOf(ps, Pred(_)) ==
    LET sel == SelectSeq(ps, Pred)
    IN  [i \in 1..Len(sel) |-> Position(sel[i])]

CoverageDefenseP(p) == p.isDefender /\ ~p.isMark

getCatchLayer(st) == [key |-> "catch", reads |-> << st.disc.x >>]

getDifficultyLayer(st) == [key |-> "difficulty", reads |-> << st.disc.x, st.disc.y >>]

\* NoHeatMap stands for the null layer: no player has the disc
getMarkingDifficultyLayer(st) ==
    LET playerWithDisc == FindPlayer(st.players, HasDiscP)
    IN  IF playerWithDisc = NULL THEN NoHeatMap
        ELSE [key |-> "markingDifficulty",
              reads |-> << st.players[playerWithDisc].x, st.players[playerWithDisc].y,
                           st.disc.x, st.disc.y >>]

getCoverageLayer(st) ==
    [key |-> "coverage",
     reads |-> << PositionsOf(st.players, OffenderP),
                  PositionsOf(st.players, CoverageDefenseP),
                  st.disc.x, st.disc.y >>]

HeatLayers(st, enabled) ==
    LET marking == getMarkingDifficultyLayer(st)
    IN  (IF enabled.catch THEN << getCatchLayer(st) >> ELSE << >>)
        \o (IF enabled.difficulty THEN << getDifficultyLayer(st) >> ELSE << >>)
        \o (IF enabled.markingDifficulty /\ marking # NoHeatMap THEN << marking >> ELSE << >>)
        \o (IF enabled.coverage THEN << getCoverageLayer(st) >> ELSE << >>)

HasThrowerLayer(layers) == \E i \in 1..Len(layers) : layers[i].key = "markingDifficulty"

\* HeatMapOf variants used to test the properties: one that falls back to the
\* catch layer when no toggle is on, one that gives up when the marking layer is null
HeatMapOfDefaultingToCatch(g) ==
    LET st == [players |-> g.players, disc |-> g.disc]
        on == IF isAnyHeatMapEnabled(g.heatMapModesEnabled) THEN g.heatMapModesEnabled
              ELSE [g.heatMapModesEnabled EXCEPT !.catch = TRUE]
        layers == HeatLayers(st, on)
        t == Thrower(st)
    IN  IF Len(layers) = 0 THEN NoHeatMap
        ELSE [isNull |-> FALSE,
              gridSize |-> heatMapGridSize,
              values |-> [layers |-> layers, normalized |-> g.heatMapNormalize],
              throwerX |-> IF HasThrowerLayer(layers) THEN st.players[t].x ELSE st.disc.x,
              throwerY |-> IF HasThrowerLayer(layers) THEN st.players[t].y ELSE st.disc.y,
              mode |-> IF Len(layers) > 1 THEN "combined" ELSE layers[1].key]

HeatMapOfNullWithoutMarking(g) ==
    LET st == [players |-> g.players, disc |-> g.disc]
        layers == HeatLayers(st, g.heatMapModesEnabled)
        t == Thrower(st)
    IN  IF ~isAnyHeatMapEnabled(g.heatMapModesEnabled) THEN NoHeatMap
        ELSE IF g.heatMapModesEnabled.markingDifficulty
                /\ getMarkingDifficultyLayer(st) = NoHeatMap THEN NoHeatMap
        ELSE IF Len(layers) = 0 THEN NoHeatMap
        ELSE [isNull |-> FALSE,
              gridSize |-> heatMapGridSize,
              values |-> [layers |-> layers, normalized |-> g.heatMapNormalize],
              throwerX |-> IF HasThrowerLayer(layers) THEN st.players[t].x ELSE st.disc.x,
              throwerY |-> IF HasThrowerLayer(layers) THEN st.players[t].y ELSE st.disc.y,
              mode |-> IF Len(layers) > 1 THEN "combined" ELSE layers[1].key]

\* HeatMapOf variant used to test the properties: it tags the result by the
\* number of toggles that are on, not by the number of layers computed
HeatMapOfModeByToggles(g) ==
    LET st == [players |-> g.players, disc |-> g.disc]
        layers == HeatLayers(st, g.heatMapModesEnabled)
        on == { k \in ModeKeys : g.heatMapModesEnabled[k] }
        t == Thrower(st)
    IN  IF ~isAnyHeatMapEnabled(g.heatMapModesEnabled) THEN NoHeatMap
        ELSE IF Len(layers) = 0 THEN NoHeatMap
        ELSE [isNull |-> FALSE,
              gridSize |-> heatMapGridSize,
              values |-> [layers |-> layers, normalized |-> g.heatMapNormalize],
              throwerX |-> IF HasThrowerLayer(layers) THEN st.players[t].x ELSE st.disc.x,
              throwerY |-> IF HasThrowerLayer(layers) THEN st.players[t].y ELSE st.disc.y,
              mode |-> IF Cardinality(on) > 1 THEN "combined" ELSE layers[1].key]

HeatMapOf(g) ==
    LET st == [players |-> g.players, disc |-> g.disc]
        layers == HeatLayers(st, g.heatMapModesEnabled)
        t == Thrower(st)
    IN  IF ~isAnyHeatMapEnabled(g.heatMapModesEnabled) THEN NoHeatMap
        ELSE IF Len(layers) = 0 THEN NoHeatMap
        ELSE [isNull |-> FALSE,
              gridSize |-> heatMapGridSize,
              values |-> [layers |-> layers, normalized |-> g.heatMapNormalize],
              throwerX |-> IF HasThrowerLayer(layers) THEN st.players[t].x ELSE st.disc.x,
              throwerY |-> IF HasThrowerLayer(layers) THEN st.players[t].y ELSE st.disc.y,
              mode |-> IF Len(layers) > 1 THEN "combined" ELSE layers[1].key]

\* the sum over the grid of the four-layer product: Infinity without a thrower
CombinedHeatMapSumPreNormalized(g) ==
    LET st == [players |-> g.players, disc |-> g.disc]
        marking == getMarkingDifficultyLayer(st)
    IN  IF marking = NoHeatMap THEN NoHeatMap
        ELSE [isNull |-> FALSE,
              isNumber |-> ProductIsNumber(st),
              layers |-> << getCatchLayer(st), getDifficultyLayer(st), marking,
                            getCoverageLayer(st) >>]

\* calculateHeatMap variant used to test the properties: it first snaps the disc
\* to its holder, as update() does
calculateHeatMapSnappingDisc(g) ==
    LET h == g.disc.holder
        snapped == IF h = NULL THEN g
                   ELSE [g EXCEPT !.disc.x = g.players[h].x, !.disc.y = g.players[h].y]
    IN  [game |-> snapped, ret |-> HeatMapOf(snapped)]

\* A call of calculateHeatMap(): the game after the call and the value returned
calculateHeatMap(g) == [game |-> g, ret |-> HeatMapOf(g)]

\* A call of getCombinedHeatMapSumPreNormalized(): sum === Infinity ? null : sum
getCombinedHeatMapSumPreNormalized(g) ==
    [game |-> g, ret |-> CombinedHeatMapSumPreNormalized(g)]

setHeatMapModeEnabled(g, mode, enabled) ==
    IF mode \in DOMAIN g.heatMapModesEnabled
    THEN [g EXCEPT !.heatMapModesEnabled[mode] = enabled]
    ELSE g

setHeatMapNormalize(g, enabled) == [g EXCEPT !.heatMapNormalize = enabled]

-----------------------------------------------------------------------------
(* Scalar field functions.  A value in [0, 1] is modelled as an integer count *)
(* of 1/ValueOne; distances are rounded down to 1/UnitsPerYard yards.         *)

ValueOne == 1000
Infinity == 1000000000

markReferenceX == 20
markReferenceY == 40
markFadeYards == 60
markFadeDivisor == 3
sideBoundary == 10
defenderPenalty == 2
\* .5 and .7 in the centerBonus of calculateCatchValue, and its exponent 2^3
centerSlope == ValueOne \div 2
centerWeight == (7 * ValueOne) \div 10
centerPowerSquarings == 3
\* fromHalfDisc = 0.5
halfCovered == ValueOne \div 2

\* Math.hypot / Math.sqrt(dx * dx + dy * dy) between two points
Hypot(ax, ay, bx, by) ==
    IF IsNaN(ax) \/ IsNaN(ay) \/ IsNaN(bx) \/ IsNaN(by) THEN NaN
    ELSE ISqrt((ax - bx) * (ax - bx) + (ay - by) * (ay - by))

\* a * b for two values
VMul(a, b) == IF IsNaN(a) \/ IsNaN(b) THEN NaN ELSE TDiv(a * b, ValueOne)

\* v ** (2 ^ n) by repeated squaring
RECURSIVE VPow2(_, _)
VPow2(v, n) == IF n = 0 THEN v ELSE VPow2(VMul(v, v), n - 1)

\* |cross| / dot as a value, for 0 <= |cross| < dot
Tangent(cross, dot) ==
    IF Abs(cross) < 2000000 THEN (Abs(cross) * ValueOne) \div dot
    ELSE Abs(cross) \div (dot \div ValueOne)

\* Math.atan(t) / (Math.PI / 4) for a tangent t in [0, 1): 0 at t = 0, increasing,
\* below 1 (the approximation t + 0.348 t (1 - t), exact at both ends)
AngleOverQuarterPi(t) == t + (348 * t * (ValueOne - t)) \div (ValueOne * ValueOne)

calculateEaseAt(throwerX, throwerY, targetX, targetY) ==
    IF IsNaN(throwerX) \/ IsNaN(throwerY) \/ IsNaN(targetX) \/ IsNaN(targetY) THEN NaN
    ELSE LET mx == markReferenceX * UnitsPerYard - throwerX
             my == markReferenceY * UnitsPerYard - throwerY
             tx == targetX - throwerX
             ty == targetY - throwerY
             dotProduct == mx * tx + my * ty
             crossProduct == mx * ty - my * tx
         IN  IF mx = 0 /\ my = 0 THEN ValueOne
             ELSE IF tx = 0 /\ ty = 0 THEN 0
             ELSE IF dotProduct <= 0 \/ Abs(crossProduct) >= dotProduct THEN ValueOne
             ELSE AngleOverQuarterPi(Tangent(crossProduct, dotProduct))

calculateMarkingDifficultyAt(st, throwerX, throwerY, targetX, targetY) ==
    LET ease == calculateEaseAt(throwerX, throwerY, targetX, targetY)
        distanceFromDisc == Hypot(targetX, targetY, st.disc.x, st.disc.y)
        raw == IF IsNaN(distanceFromDisc) THEN NaN
               ELSE ValueOne - (distanceFromDisc * ValueOne)
                                \div (markFadeYards * markFadeDivisor * UnitsPerYard)
        distanceFactor == IF ~IsNaN(raw) /\ raw < 0 THEN 0 ELSE raw
    IN  IF IsNaN(ease) \/ IsNaN(distanceFactor) THEN NaN
        ELSE ValueOne - VMul(ValueOne - ease, distanceFactor)

calculateCatchValue(st, x, y) ==
    LET discVerticalPosition == st.disc.x
        fieldCenterY == (fieldWidth * UnitsPerYard) \div 2
        distanceFromCenter == Abs(y - fieldCenterY)
        boundary == sideBoundary * UnitsPerYard
        normalizedDist == TDiv((fieldCenterY - distanceFromCenter) * ValueOne, boundary)
        outer == ValueOne - normalizedDist
        centerBonus == IF distanceFromCenter > fieldCenterY - boundary
                       THEN ValueOne - VMul(outer, centerSlope)
                                     - VMul(centerWeight, VPow2(outer, centerPowerSquarings))
                       ELSE ValueOne
    IN  IF x <= endZoneDepth * UnitsPerYard THEN ValueOne
        ELSE IF ~IsNaN(discVerticalPosition) /\ x >= discVerticalPosition THEN 0
        ELSE IF IsNaN(discVerticalPosition) THEN NaN
        ELSE LET progress == TDiv((discVerticalPosition - x) * ValueOne,
                                  fieldLength * UnitsPerYard)
                 positionValue == Clamp(0, ValueOne, progress) \div 2 + ValueOne \div 2
             IN  Clamp(0, ValueOne, VMul(positionValue, centerBonus))

\* the least distance from (cx, cy) to a player of ps satisfying Pred; a distance
\* that is NaN never replaces the minimum
MinDistance(ps, Pred(_), cx, cy) ==
    LET ds == { Hypot(cx, cy, ps[i].x, ps[i].y) : i \in { j \in 1..Len(ps) : Pred(ps[j]) } }
               \ { NaN }
    IN  IF ds = {} THEN Infinity ELSE CHOOSE d \in ds : \A e \in ds : d <= e

\* values[x][y] of _getCoverageLayer for grid cell c
coverageValue(st, c) ==
    LET cellX == CellCenterX(c)
        cellY == CellCenterY(c)
        discToSquare == Hypot(cellX, cellY, st.disc.x, st.disc.y)
        minOffenseDist == MinDistance(st.players, OffenderP, cellX, cellY)
        nearestDefense == MinDistance(st.players, CoverageDefenseP, cellX, cellY)
        minDefenseDist == IF nearestDefense = Infinity THEN Infinity
                          ELSE nearestDefense + defenderPenalty * UnitsPerYard
        defenderCloserThanOffense == minOffenseDist >= minDefenseDist
        defenderWithinHalfDiscDistance ==
            ~IsNaN(discToSquare) /\ 2 * minDefenseDist < discToSquare
        fromCloser == IF defenderCloserThanOffense THEN 0 ELSE ValueOne
        fromHalfDisc == IF defenderWithinHalfDiscDistance THEN halfCovered ELSE ValueOne
    IN  Min(fromCloser, fromHalfDisc)

-----------------------------------------------------------------------------
(* Heat-map grids.  A layer is a function from grid cells to values.  The      *)
(* model computes the layers on every GridStride-th column and row of the      *)
(* grid; the loops over the cells are the code's.                              *)

GridStride == 20

GridCells ==
    { << i * GridStride, j * GridStride >> :
        i \in 0..((numCellsX - 1) \div GridStride),
        j \in 0..((numCellsY - 1) \div GridStride) }

\* a grid with every cell computed, as the filled array values[x][y]
Filled(grid) == grid @@ << >>

\* the cells in the order of the loops: x ascending, then y ascending
CellBefore(a, b) == a[1] < b[1] \/ (a[1] = b[1] /\ a[2] < b[2])

difficultyYards == 80
\* Math.max(0.2, .)
difficultyFloor == ValueOne \div 5

\* 1 - v
VOneMinus(v) == IF IsNaN(v) THEN NaN ELSE ValueOne - v

\* the numbers among a set of values
Numbers(vs) == vs \ { NaN }
Least(vs) == CHOOSE v \in vs : \A w \in vs : v <= w
Greatest(vs) == CHOOSE v \in vs : \A w \in vs : v >= w

calculateDifficultyAt(st, x, y) ==
    LET dist == Hypot(x, y, st.disc.x, st.disc.y)
    IN  IF IsNaN(dist) THEN NaN
        ELSE IF dist <= 0 THEN 0
        ELSE (dist * ValueOne) \div (difficultyYards * UnitsPerYard)

CatchLayerValues(st) ==
    Filled([c \in GridCells |-> calculateCatchValue(st, CellCenterX(c), CellCenterY(c))])

\* _getDifficultyLayer: a NaN never replaces maxDifficulty; Math.max(0.2, NaN) is NaN
DifficultyLayerValues(st) ==
    LET raw == Filled([c \in GridCells |->
                          calculateDifficultyAt(st, CellCenterX(c), CellCenterY(c))])
        above == { v \in Numbers({ raw[c] : c \in GridCells }) : v > 0 }
        maxDifficulty == IF above = {} THEN 0 ELSE Greatest(above)
    IN  IF maxDifficulty > 0
        THEN Filled([c \in GridCells |->
                        IF IsNaN(raw[c]) THEN NaN
                        ELSE Max(difficultyFloor, (raw[c] * ValueOne) \div maxDifficulty)
                                \div 2])
        ELSE raw

\* _getMarkingDifficultyLayer, for the thrower t # NULL
MarkingLayerValues(st, t) ==
    Filled([c \in GridCells |->
               calculateMarkingDifficultyAt(st, st.players[t].x, st.players[t].y,
                                            CellCenterX(c), CellCenterY(c))])

CoverageLayerValues(st) == Filled([c \in GridCells |-> coverageValue(st, c)])

LayerValues(st, key) ==
    CASE key = "catch" -> CatchLayerValues(st)
      [] key = "difficulty" -> DifficultyLayerValues(st)
      [] key = "markingDifficulty" -> MarkingLayerValues(st, Thrower(st))
      [] key = "coverage" -> CoverageLayerValues(st)

\* let v = layer.values[x][y]; if (layer.key === 'difficulty') v = 1 - v
LayerFactor(key, v) == IF key = "difficulty" THEN VOneMinus(v) ELSE v

\* product *= v over the layers from the i-th on, for one cell's values vs
RECURSIVE ProductFrom(_, _, _, _)
ProductFrom(keys, vs, i, product) ==
    IF i > Len(keys) THEN product
    ELSE ProductFrom(keys, vs, i + 1, VMul(product, LayerFactor(keys[i], vs[i])))

\* the grid of products of the layers named by keys, before normalization
CombinedProducts(st, keys) ==
    LET grids == Filled([i \in 1..Len(keys) |-> LayerValues(st, keys[i])])
    IN  Filled([c \in GridCells |->
                   ProductFrom(keys, [i \in 1..Len(keys) |-> grids[i][c]], 1, ValueOne)])

\* the min-max rescaling of calculateHeatMap: a NaN never replaces min or max,
\* and the grid is left as it is unless max - min > 0
Normalized(values) ==
    LET numbers == Numbers({ values[c] : c \in GridCells })
    IN  IF numbers = {} \/ Greatest(numbers) - Least(numbers) <= 0 THEN values
        ELSE LET min == Least(numbers)
                 range == Greatest(numbers) - min
             IN  Filled([c \in GridCells |->
                            IF IsNaN(values[c]) THEN NaN
                            ELSE ((values[c] - min) * ValueOne) \div range])

\* HeatMapGrid variant used to test the properties: it multiplies the
\* difficulty layer in as it is
HeatMapGridWithoutInversion(g) ==
    LET st == [players |-> g.players, disc |-> g.disc]
        layers == HeatLayers(st, g.heatMapModesEnabled)
        grids == Filled([i \in 1..Len(layers) |-> LayerValues(st, layers[i].key)])
        plain == [i \in 1..Len(layers) |-> "plain"]
        products == Filled([c \in GridCells |->
                               ProductFrom(plain, [i \in 1..Len(layers) |-> grids[i][c]],
                                           1, ValueOne)])
    IN  IF g.heatMapNormalize THEN Normalized(products) ELSE products

\* values of the result of calculateHeatMap(), when it is not null
HeatMapGrid(g) ==
    LET st == [players |-> g.players, disc |-> g.disc]
        layers == HeatLayers(st, g.heatMapModesEnabled)
        products == CombinedProducts(st, [i \in 1..Len(layers) |-> layers[i].key])
    IN  IF g.heatMapNormalize THEN Normalized(products) ELSE products

\* A call of calculateHeatMap() with the grid of values it returns
calculateHeatMapGrid(g) ==
    LET result == HeatMapOf(g)
    IN  [game |-> g,
         ret |-> IF result = NoHeatMap THEN NoHeatMap
                 ELSE [result EXCEPT !.values = HeatMapGrid(g)]]

-----------------------------------------------------------------------------
(* The positioning searches, computed on the heat-map grids *)

FourLayers == << "catch", "difficulty", "markingDifficulty", "coverage" >>

RECURSIVE SumCells(_, _)
SumCells(grid, cells) ==
    IF cells = {} THEN 0
    ELSE LET c == CHOOSE d \in cells : TRUE
         IN  grid[c] + SumCells(grid, cells \ { c })

\* CombinedSum variant used to test the properties: the sum of the products
\* after the min-max rescaling, when normalize is on
CombinedSumAfterNormalize(g) ==
    LET st == [players |-> g.players, disc |-> g.disc]
    IN  IF getMarkingDifficultyLayer(st) = NoHeatMap THEN Infinity
        ELSE CHOOSE sum \in
                { IF NaN \in { values[c] : c \in GridCells } THEN NaN
                  ELSE SumCells(values, GridCells) :
                    values \in { IF g.heatMapNormalize
                                 THEN Normalized(CombinedProducts(st, FourLayers))
                                 ELSE CombinedProducts(st, FourLayers) } } : TRUE

\* _getCombinedHeatMapSumPreNormalized(): Infinity without a thrower, NaN when a
\* product is NaN
CombinedSum(g) ==
    LET st == [players |-> g.players, disc |-> g.disc]
    IN  IF getMarkingDifficultyLayer(st) = NoHeatMap THEN Infinity
        ELSE CHOOSE sum \in
                { IF NaN \in { products[c] : c \in GridCells } THEN NaN
                  ELSE SumCells(products, GridCells) :
                    products \in { CombinedProducts(st, FourLayers) } } : TRUE

\* a < b as JavaScript compares numbers: false when either is NaN
Less(a, b) == ~IsNaN(a) /\ ~IsNaN(b) /\ a < b

\* the cells of a set in the order of the loops
RECURSIVE InLoopOrder(_)
InLoopOrder(cells) ==
    IF cells = {} THEN << >>
    ELSE LET first == CHOOSE c \in cells : \A d \in cells \ { c } : CellBefore(c, d)
         IN  << first >> \o InLoopOrder(cells \ { first })

\* one candidate of positionDefenderOptimal: the defender dd is moved to the
\* cell centre, the sum is taken, and the best so far is replaced if sum < bestSum
DefenderStep(g, dd, c, best) ==
    LET clampedX == Clamp(0, totalLength * UnitsPerYard, CellCenterX(c))
        clampedY == Clamp(0, fieldWidth * UnitsPerYard, CellCenterY(c))
    IN  CHOOSE step \in
            { [game |-> [g EXCEPT !.players = st.players, !.disc = st.disc],
               best |-> CHOOSE b \in
                           { IF Less(sum, best.sum)
                             THEN [sum |-> sum, x |-> clampedX, y |-> clampedY]
                             ELSE best :
                               sum \in { CombinedSum([g EXCEPT !.players = st.players,
                                                               !.disc = st.disc]) } } : TRUE] :
                st \in { movePlayerTo([players |-> g.players, disc |-> g.disc],
                                      dd, clampedX, clampedY) } } : TRUE

\* the candidates from the i-th on
RECURSIVE DefenderLoop(_, _, _, _, _)
DefenderLoop(g, dd, cells, i, best) ==
    IF i > Len(cells) THEN [game |-> g, best |-> best]
    ELSE CHOOSE after \in { DefenderLoop(step.game, dd, cells, i + 1, step.best) :
                              step \in { DefenderStep(g, dd, cells[i], best) } } : TRUE

\* positionDefenderOptimalSearch variant used to test the properties: it leaves
\* the defender at the last candidate tried
positionDefenderOptimalSearchWithoutFinalMove(g) ==
    LET dd == FindPlayer(g.players, DownfieldDefenderP)
        offender == FindPlayer(g.players, OffenderP)
    IN  IF dd = NULL THEN g
        ELSE IF offender = NULL THEN g
        ELSE DefenderLoop(g, dd, InLoopOrder(CellsAround(g.players[offender])), 1,
                          [sum |-> Infinity, x |-> g.players[dd].x,
                           y |-> g.players[dd].y]).game

\* positionDefenderOptimal(), the search carried out
positionDefenderOptimalSearch(g) ==
    LET dd == FindPlayer(g.players, DownfieldDefenderP)
        offender == FindPlayer(g.players, OffenderP)
    IN  IF dd = NULL THEN g
        ELSE IF offender = NULL THEN g
        ELSE CHOOSE after \in
                { CHOOSE h \in
                    { [found.game EXCEPT !.players = st.players, !.disc = st.disc] :
                        st \in { movePlayerTo([players |-> found.game.players,
                                               disc |-> found.game.disc],
                                              dd, found.best.x, found.best.y) } } : TRUE :
                    found \in { DefenderLoop(g, dd, InLoopOrder(CellsAround(g.players[offender])),
                                             1, [sum |-> Infinity, x |-> g.players[dd].x,
                                                 y |-> g.players[dd].y]) } } : TRUE

\* the cells of positionOffenderOptimal from the i-th on: the best so far is
\* replaced if product > maxValue
RECURSIVE OffenderLoop(_, _, _, _)
OffenderLoop(products, cells, i, best) ==
    IF i > Len(cells) THEN best
    ELSE CHOOSE after \in
            { OffenderLoop(products, cells, i + 1, next) :
                next \in { IF Less(best.maxValue, products[cells[i]])
                           THEN [maxValue |-> products[cells[i]],
                                 x |-> CellCenterX(cells[i]), y |-> CellCenterY(cells[i])]
                           ELSE best } } : TRUE

\* positionOffenderOptimal(), the search carried out
positionOffenderOptimalSearch(g) ==
    LET st == [players |-> g.players, disc |-> g.disc]
        offender == FindPlayer(g.players, OffenderP)
    IN  IF offender = NULL THEN g
        ELSE IF getMarkingDifficultyLayer(st) = NoHeatMap THEN g
        ELSE CHOOSE after \in
                { [g EXCEPT !.players = moved.players, !.disc = moved.disc] :
                    moved \in
                      { CHOOSE m \in
                          { movePlayerTo(st, offender,
                                         Clamp(0, totalLength * UnitsPerYard, best.x),
                                         Clamp(0, fieldWidth * UnitsPerYard, best.y)) :
                              best \in { OffenderLoop(CombinedProducts(st, FourLayers),
                                                      InLoopOrder(GridCells), 1,
                                                      [maxValue |-> -Infinity,
                                                       x |-> g.players[offender].x,
                                                       y |-> g.players[offender].y]) } } :
                          TRUE } } : TRUE

\* getCombinedHeatMapSumPreNormalized(): sum === Infinity ? null : sum
getCombinedSum(g) ==
    CHOOSE r \in { [game |-> g, ret |-> IF sum = Infinity THEN NoHeatMap ELSE sum] :
                     sum \in { CombinedSum(g) } } : TRUE

-----------------------------------------------------------------------------
(* Inputs *)

Dts == {17, 100}
Speeds == {defaultSpeed * UnitsPerYard, 12}
ThrowTargets == { <<0, 20>>, <<79, 16>> }
MoveTargets == { <<-5, 50>> }
ModeInputs == ModeKeys \cup {"throw"}
FairDts == {100}
FairSpeeds == {defaultSpeed * UnitsPerYard, 0}
FairTargets == { <<0, 20>>, <<110, 40>> }

\* inputs of the scalar field functions and of the calls around them, in units
FieldDts == {100}
FieldSpeeds == {defaultSpeed * UnitsPerYard, 15 * UnitsPerYard}
FieldThrowTargets == { <<0, 2000>>, <<11000, 4000>>, <<8000, 1500>> }
FieldMoveTargets == { <<5450, 1450>>, <<10000, 2000>>, <<-500, 5000>>, <<12000, -300>> }
CatchPoints == { <<x, y>> : x \in {2000, 2050, 5050, 9000, 9550},
                           y \in {2000, 50, 3950} }
EaseThrowers == { <<8000, 1500>>, <<2000, 4000>>, <<0, 4000>> }
EaseTargets == { <<5000, 2750>>, <<4000, 2750>>, <<8250, 2100>>, <<8000, 1500>>,
                 <<10000, 1000>>, <<2000, 3000>> }
CoverageCells == { <<54, 14>>, <<55, 14>>, <<10, 10>>, <<99, 19>> }

\* inputs of the calls made around a heat-map call, in units
GridThrowTargets == { <<0, 2000>>, <<8000, 1500>> }
GridSpeeds == { defaultSpeed * UnitsPerYard }
GridMoveTargets == { <<1000, 500>>, <<6000, 3000>> }

Yards(S) == { << t[1] * UnitsPerYard, t[2] * UnitsPerYard >> : t \in S }

\* a call: the operation, its player argument, whether its target is the disc's
\* position, and the operation called before it
Op(name, p, a, before) == [name |-> name, player |-> p, atDisc |-> a, prev |-> before]

-----------------------------------------------------------------------------
(* Specification *)

Undefined == [undefined |-> TRUE]

Init ==
    /\ players = initialize.players
    /\ disc = initialize.disc
    /\ heatMapModesEnabled = [catch |-> FALSE, difficulty |-> FALSE,
                              markingDifficulty |-> FALSE, coverage |-> FALSE]
    /\ heatMapNormalize = TRUE
    /\ lastOp = Op("constructor", NULL, FALSE, "none")
    /\ ret = Undefined
    /\ nOps = 0
    /\ flightTicks = 0
    /\ session = [isRunning |-> FALSE, selectedPlayer |-> NULL,
                  team1Score |-> 0, team2Score |-> 0,
                  heatMapGridSize |-> heatMapGridSize]

State == [players |-> players, disc |-> disc]

Game == [players |-> players, disc |-> disc,
         heatMapModesEnabled |-> heatMapModesEnabled,
         heatMapNormalize |-> heatMapNormalize]

Becomes(st) == players' = st.players /\ disc' = st.disc

GameBecomes(g) ==
    /\ players' = g.players
    /\ disc' = g.disc
    /\ heatMapModesEnabled' = g.heatMapModesEnabled
    /\ heatMapNormalize' = g.heatMapNormalize

OrNoCell(cells) == IF cells = {} THEN { NoCell } ELSE cells

\* a call of an entity operation, counted against the budget
Call(budget, name, p, a) ==
    /\ nOps < budget
    /\ nOps' = nOps + 1
    /\ lastOp' = Op(name, p, a, lastOp.name)
    /\ UNCHANGED session
    /\ ret' = Undefined

\* a frame of the game loop; a capped flight has at most MaxFlightTicks ticks
UpdateAction(dts, capped) ==
    \E dt \in dts :
        /\ (capped /\ disc.inFlight) => flightTicks < MaxFlightTicks
        /\ Becomes(update(State, dt))
        /\ flightTicks' = IF capped /\ disc.inFlight THEN flightTicks + 1 ELSE flightTicks
        /\ lastOp' = Op("update", NULL, FALSE, lastOp.name)
        /\ UNCHANGED session
        /\ ret' = Undefined
        /\ UNCHANGED << heatVars, nOps >>

ThrowAction(budget, targets, speeds) ==
    \E t \in Yards(targets) \cup { << disc.x, disc.y >> }, speed \in speeds :
        /\ Call(budget, "throwDisc", NULL, t = << disc.x, disc.y >>)
        /\ Becomes(throwDisc(State, t[1], t[2], speed))
        /\ flightTicks' = 0
        /\ UNCHANGED heatVars

CatchAction(budget) ==
    \E p \in PlayerIds :
        /\ Call(budget, "catchDisc", p, FALSE)
        /\ Becomes(catchDisc(State, p))
        /\ UNCHANGED << heatVars, flightTicks >>

MoveAction(budget) ==
    \E p \in PlayerIds, t \in Yards(MoveTargets) \cup { << disc.x, disc.y >> } :
        /\ Call(budget, "movePlayerTo", p, t = << disc.x, disc.y >>)
        /\ Becomes(movePlayerTo(State, p, t[1], t[2]))
        /\ UNCHANGED << heatVars, flightTicks >>

StackAction ==
    /\ Call(MaxOps, "positionOffenderStack", NULL, FALSE)
    /\ Becomes(positionOffenderStack(State))
    /\ UNCHANGED << heatVars, flightTicks >>

DefenderOptimalAction ==
    /\ nOps < MaxOps
    /\ \E best \in OrNoCell(DefenderCandidates(State)) :
        /\ Call(MaxOps, "positionDefenderOptimal", NULL, FALSE)
        /\ Becomes(positionDefenderOptimal(State, best))
        /\ UNCHANGED << heatVars, flightTicks >>

OffenderOptimalAction ==
    /\ nOps < MaxOps
    /\ \E best \in OrNoCell(OffenderCandidates(State)) :
        /\ Call(MaxOps, "positionOffenderOptimal", NULL, FALSE)
        /\ Becomes(positionOffenderOptimal(State, best))
        /\ UNCHANGED << heatVars, flightTicks >>

\* the whole game: the entities, the heat-map settings and the session fields
FullGame == [players |-> players, disc |-> disc,
             heatMapModesEnabled |-> heatMapModesEnabled,
             heatMapNormalize |-> heatMapNormalize, session |-> session]

\* reset variant used to test the properties: it keeps the selected player
resetKeepingSelection(g) ==
    [g EXCEPT !.session = [@ EXCEPT !.isRunning = FALSE,
                                    !.team1Score = 0, !.team2Score = 0],
              !.players = initialize.players,
              !.disc = initialize.disc]

\* reset(): stop(), the selection and the scores cleared, the entities rebuilt
reset(g) ==
    [g EXCEPT !.session = [@ EXCEPT !.isRunning = FALSE, !.selectedPlayer = NULL,
                                    !.team1Score = 0, !.team2Score = 0],
              !.players = initialize.players,
              !.disc = initialize.disc]

FullGameBecomes(g) ==
    /\ players' = g.players
    /\ disc' = g.disc
    /\ heatMapModesEnabled' = g.heatMapModesEnabled
    /\ heatMapNormalize' = g.heatMapNormalize
    /\ session' = g.session

ResetAction(budget) ==
    /\ nOps < budget
    /\ nOps' = nOps + 1
    /\ lastOp' = Op("reset", NULL, FALSE, lastOp.name)
    /\ ret' = Undefined
    /\ FullGameBecomes(reset(FullGame))
    /\ UNCHANGED flightTicks

\* start() and stop()
RunAction(budget) ==
    \E running \in BOOLEAN :
        /\ nOps < budget
        /\ nOps' = nOps + 1
        /\ lastOp' = Op(IF running THEN "start" ELSE "stop", NULL, FALSE, lastOp.name)
        /\ ret' = Undefined
        /\ session' = [session EXCEPT !.isRunning = running]
        /\ UNCHANGED << entityVars, heatVars, flightTicks >>

\* selectPlayer(player) and clearSelection()
SelectAction(budget) ==
    \E p \in PlayerIds \cup { NULL } :
        /\ nOps < budget
        /\ nOps' = nOps + 1
        /\ lastOp' = Op(IF p = NULL THEN "clearSelection" ELSE "selectPlayer", p, FALSE,
                        lastOp.name)
        /\ ret' = Undefined
        /\ session' = [session EXCEPT !.selectedPlayer = p]
        /\ UNCHANGED << entityVars, heatVars, flightTicks >>

SetModeAction ==
    \E mode \in ModeInputs, enabled \in BOOLEAN :
        /\ GameBecomes(setHeatMapModeEnabled(Game, mode, enabled))
        /\ lastOp' = Op("setHeatMapModeEnabled", NULL, FALSE, lastOp.name)
        /\ UNCHANGED session
        /\ ret' = Undefined
        /\ UNCHANGED countVars

SetNormalizeAction ==
    \E enabled \in BOOLEAN :
        /\ GameBecomes(setHeatMapNormalize(Game, enabled))
        /\ lastOp' = Op("setHeatMapNormalize", NULL, FALSE, lastOp.name)
        /\ UNCHANGED session
        /\ ret' = Undefined
        /\ UNCHANGED countVars

CalculateHeatMapAction ==
    /\ GameBecomes(calculateHeatMap(Game).game)
    /\ lastOp' = Op("calculateHeatMap", NULL, FALSE, lastOp.name)
    /\ UNCHANGED session
    /\ ret' = calculateHeatMap(Game).ret
    /\ UNCHANGED countVars

HeatMapSumAction ==
    /\ GameBecomes(getCombinedHeatMapSumPreNormalized(Game).game)
    /\ lastOp' = Op("getCombinedHeatMapSumPreNormalized", NULL, FALSE, lastOp.name)
    /\ UNCHANGED session
    /\ ret' = getCombinedHeatMapSumPreNormalized(Game).ret
    /\ UNCHANGED countVars

\* a call whose arguments are recorded with it
OpWith(name, p, args, before) ==
    [name |-> name, player |-> p, atDisc |-> FALSE, prev |-> before, args |-> args]

CallWith(budget, name, p, args) ==
    /\ nOps < budget
    /\ nOps' = nOps + 1
    /\ lastOp' = OpWith(name, p, args, lastOp.name)
    /\ UNCHANGED session
    /\ ret' = Undefined

MoveToAction(budget, targets) ==
    \E p \in PlayerIds, t \in targets :
        /\ CallWith(budget, "movePlayerTo", p, t)
        /\ Becomes(movePlayerTo(State, p, t[1], t[2]))
        /\ UNCHANGED << heatVars, flightTicks >>

ThrowToAction(budget, targets, speeds) ==
    \E t \in targets, speed \in speeds :
        /\ CallWith(budget, "throwDisc", NULL, << t[1], t[2], speed >>)
        /\ Becomes(throwDisc(State, t[1], t[2], speed))
        /\ flightTicks' = 0
        /\ UNCHANGED heatVars

\* a call of a scalar field function, counted against the budget; it changes
\* no entity
Evaluated(budget, name, args) ==
    /\ nOps < budget
    /\ nOps' = nOps + 1
    /\ lastOp' = OpWith(name, NULL, args, lastOp.name)
    /\ UNCHANGED session
    /\ UNCHANGED << entityVars, heatVars, flightTicks >>

CatchValueAction ==
    \E pt \in CatchPoints :
        /\ Evaluated(MaxFieldOps, "calculateCatchValue", pt)
        /\ ret' = calculateCatchValue(State, pt[1], pt[2])

EaseAction ==
    \E th \in EaseThrowers, tg \in EaseTargets :
        /\ Evaluated(MaxFieldOps, "calculateEaseAt", << th[1], th[2], tg[1], tg[2] >>)
        /\ ret' = calculateEaseAt(th[1], th[2], tg[1], tg[2])

MarkingDifficultyAction ==
    \E th \in EaseThrowers, tg \in EaseTargets :
        /\ Evaluated(MaxFieldOps, "calculateMarkingDifficultyAt",
                     << th[1], th[2], tg[1], tg[2] >>)
        /\ ret' = calculateMarkingDifficultyAt(State, th[1], th[2], tg[1], tg[2])

CoverageCellAction ==
    \E c \in CoverageCells :
        /\ Evaluated(MaxFieldOps, "_getCoverageLayer", c)
        /\ ret' = coverageValue(State, c)

(* The entity operations, in any order *)
Next ==
    \/ UpdateAction(Dts, TRUE)
    \/ ThrowAction(MaxOps, ThrowTargets, Speeds)
    \/ CatchAction(MaxOps)
    \/ MoveAction(MaxOps)
    \/ StackAction
    \/ DefenderOptimalAction
    \/ OffenderOptimalAction
    \/ ResetAction(MaxOps)

Spec == Init /\ [][Next]_vars

(* The heat-map operations between a few entity operations *)
NextHeat ==
    \/ SetModeAction
    \/ SetNormalizeAction
    \/ CalculateHeatMapAction
    \/ HeatMapSumAction
    \/ UpdateAction(Dts, TRUE)
    \/ ThrowAction(MaxHeatOps, ThrowTargets, Speeds)
    \/ CatchAction(MaxHeatOps)
    \/ MoveAction(MaxHeatOps)

SpecHeat == Init /\ [][NextHeat]_vars

(* Flights to their end: the game loop calls update() on every frame *)
NextFair ==
    \/ UpdateAction(FairDts, FALSE)
    \/ ThrowAction(MaxFairOps, FairTargets, FairSpeeds)

SpecFair == Init /\ [][NextFair]_vars /\ WF_vars(UpdateAction(FairDts, FALSE))

(* The scalar field functions, evaluated between a few entity operations *)
NextField ==
    \/ CatchValueAction
    \/ EaseAction
    \/ MarkingDifficultyAction
    \/ CoverageCellAction
    \/ UpdateAction(FieldDts, TRUE)
    \/ ThrowToAction(MaxFieldOps, FieldThrowTargets, FieldSpeeds)
    \/ MoveToAction(MaxFieldOps, FieldMoveTargets)
    \/ CatchAction(MaxFieldOps)

SpecField == Init /\ [][NextField]_vars

(* Throws and catches in any order, with the frames between them *)
NextThrow ==
    \/ UpdateAction(FairDts, TRUE)
    \/ ThrowToAction(MaxThrowOps, FieldThrowTargets, FieldSpeeds)
    \/ CatchAction(MaxThrowOps)

SpecThrow == Init /\ [][NextThrow]_vars

\* the toggles, counted against the budget
ToggleAction(budget) ==
    \E mode \in ModeKeys, enabled \in BOOLEAN :
        /\ CallWith(budget, "setHeatMapModeEnabled", NULL, << mode, enabled >>)
        /\ GameBecomes(setHeatMapModeEnabled(Game, mode, enabled))
        /\ UNCHANGED flightTicks

NormalizeAction(budget) ==
    \E enabled \in BOOLEAN :
        /\ CallWith(budget, "setHeatMapNormalize", NULL, << enabled >>)
        /\ GameBecomes(setHeatMapNormalize(Game, enabled))
        /\ UNCHANGED flightTicks

HeatMapGridAction ==
    \E result \in { calculateHeatMapGrid(Game) } :
        /\ GameBecomes(result.game)
        /\ lastOp' = Op("calculateHeatMap", NULL, FALSE, lastOp.name)
        /\ UNCHANGED session
        /\ ret' = result.ret
        /\ UNCHANGED countVars

DifficultyLayerAction ==
    /\ lastOp' = Op("_getDifficultyLayer", NULL, FALSE, lastOp.name)
    /\ UNCHANGED session
    /\ ret' = DifficultyLayerValues(State)
    /\ UNCHANGED << entityVars, heatVars, countVars >>

(* Heat-map grids computed between a few toggles and entity operations *)
NextGrid ==
    \/ ToggleAction(MaxGridOps)
    \/ NormalizeAction(MaxGridOps)
    \/ HeatMapGridAction
    \/ DifficultyLayerAction
    \/ UpdateAction(FieldDts, TRUE)
    \/ ThrowToAction(MaxGridOps, GridThrowTargets, GridSpeeds)
    \/ MoveToAction(MaxGridOps, GridMoveTargets)
    \/ CatchAction(MaxGridOps)

SpecGrid == Init /\ [][NextGrid]_vars

DefenderSearchAction(budget) ==
    /\ CallWith(budget, "positionDefenderOptimal", NULL, << >>)
    /\ GameBecomes(positionDefenderOptimalSearch(Game))
    /\ UNCHANGED flightTicks

OffenderSearchAction(budget) ==
    /\ CallWith(budget, "positionOffenderOptimal", NULL, << >>)
    /\ GameBecomes(positionOffenderOptimalSearch(Game))
    /\ UNCHANGED flightTicks

CombinedSumAction ==
    \E result \in { getCombinedSum(Game) } :
        /\ GameBecomes(result.game)
        /\ lastOp' = Op("getCombinedHeatMapSumPreNormalized", NULL, FALSE, lastOp.name)
        /\ UNCHANGED session
        /\ ret' = result.ret
        /\ UNCHANGED countVars

(* The positioning searches after a few throws, catches and frames *)
NextSearch ==
    \/ DefenderSearchAction(MaxSearchOps + 1)
    \/ OffenderSearchAction(MaxSearchOps + 1)
    \/ CombinedSumAction
    \/ UpdateAction(FieldDts, TRUE)
    \/ ThrowToAction(MaxSearchOps, GridThrowTargets, GridSpeeds)
    \/ CatchAction(MaxSearchOps)

SpecSearch == Init /\ [][NextSearch]_vars

(* The positioning searches around a throw or a catch *)
NextIdle ==
    \/ DefenderSearchAction(MaxIdleOps + 1)
    \/ OffenderSearchAction(MaxIdleOps + 1)
    \/ CombinedSumAction
    \/ UpdateAction(FieldDts, TRUE)
    \/ ThrowToAction(MaxIdleOps, GridThrowTargets, GridSpeeds)
    \/ CatchAction(MaxIdleOps)

SpecIdle == Init /\ [][NextIdle]_vars

(* The positioning searches under every setting of the toggles *)
NextToggled ==
    \/ ToggleAction(MaxToggledOps)
    \/ NormalizeAction(MaxToggledOps)
    \/ DefenderSearchAction(MaxToggledOps + 1)
    \/ OffenderSearchAction(MaxToggledOps + 1)
    \/ CombinedSumAction
    \/ MoveToAction(MaxToggledOps, GridMoveTargets)
    \/ CatchAction(MaxToggledOps)

SpecToggled == Init /\ [][NextToggled]_vars

StackToAction(budget) ==
    /\ CallWith(budget, "positionOffenderStack", NULL, << >>)
    /\ Becomes(positionOffenderStack(State))
    /\ UNCHANGED << heatVars, flightTicks >>

(* The entity operations around a disc that has landed *)
NextInert ==
    \/ UpdateAction(FieldDts, TRUE)
    \/ ThrowAction(MaxInertOps, ThrowTargets, Speeds)
    \/ MoveAction(MaxInertOps)
    \/ StackToAction(MaxInertOps)
    \/ DefenderSearchAction(MaxInertOps)
    \/ OffenderSearchAction(MaxInertOps)
    \/ CatchAction(MaxInertOps)
    \/ ResetAction(MaxInertOps)

SpecInert == Init /\ [][NextInert]_vars

(* A reset after a few calls of any kind *)
NextReset ==
    \/ ResetAction(MaxResetOps + 1)
    \/ RunAction(MaxResetOps)
    \/ SelectAction(MaxResetOps)
    \/ ToggleAction(MaxResetOps)
    \/ NormalizeAction(MaxResetOps)
    \/ UpdateAction(FieldDts, TRUE)
    \/ ThrowToAction(MaxResetOps, GridThrowTargets, GridSpeeds)
    \/ MoveToAction(MaxResetOps, GridMoveTargets)
    \/ CatchAction(MaxResetOps)

SpecReset == Init /\ [][NextReset]_vars

-----------------------------------------------------------------------------
(* Properties *)

Holders == { p \in PlayerIds : players[p].hasDisc }
Marks == { p \in PlayerIds : players[p].isDefender /\ players[p].isMark }
NoPlayerHasDisc == Holders = {}
AllModesOff == ~isAnyHeatMapEnabled(heatMapModesEnabled)
OtherModeOn ==
    heatMapModesEnabled.catch \/ heatMapModesEnabled.difficulty \/ heatMapModesEnabled.coverage
Called(name) == lastOp.name = name

\* C1: the disc is never both in flight and held, in every reachable state.
InFlightExcludesHolder == ~(disc.inFlight /\ disc.holder # NULL)

\* C1 witness: a thrown disc still in flight, with no holder, after an update tick.
InFlightAfterTick == Called("update") /\ disc.inFlight /\ disc.holder = NULL

\* C2 (as claimed): at most one player has hasDisc = true, in every reachable state.
AtMostOneHasDisc == Cardinality(Holders) <= 1

\* C3 (as claimed): whenever some player holds the disc, exactly one defender is
\* the mark and its team differs from the team of the disc holder.
MarkOpposesHolder ==
    disc.holder # NULL =>
        /\ Cardinality(Marks) = 1
        /\ \A m \in Marks : players[m].team # players[disc.holder].team

\* C4 (as claimed): whenever the disc is held, its position is the holder's
\* position, in every reachable state.
DiscAtHolder ==
    disc.holder # NULL =>
        /\ disc.x = players[disc.holder].x
        /\ disc.y = players[disc.holder].y

\* C5 (as claimed): with update ticks occurring on every frame, a disc in flight
\* eventually is at rest: not in flight, with velocity exactly (0, 0).
FlightEnds == disc.inFlight ~> (~disc.inFlight /\ disc.vx = 0 /\ disc.vy = 0)

\* C6: catchDisc(p) followed immediately by throwDisc(disc.x, disc.y) leaves the
\* disc position unchanged, sets inFlight and clears the holder.
CatchThrowRoundTrip ==
    [][(Called("catchDisc") /\ lastOp'.name = "throwDisc" /\ lastOp'.atDisc)
        => /\ disc'.x = disc.x
           /\ disc'.y = disc.y
           /\ disc'.inFlight
           /\ disc'.holder = NULL]_vars

\* C6 witness: a throw to the disc's own position made right after a catch by a
\* player who stands away from the disc.
RoundTripDone ==
    /\ Called("throwDisc") /\ lastOp.atDisc /\ lastOp.prev = "catchDisc"
    /\ disc.inFlight
    /\ \A p \in PlayerIds : Position(players[p]) # << disc.x, disc.y >>

\* C7 (as claimed): the disc velocity and position are never NaN: throwDisc guards
\* the division by a zero distance.
DiscNeverNaN ==
    ~IsNaN(disc.vx) /\ ~IsNaN(disc.vy) /\ ~IsNaN(disc.x) /\ ~IsNaN(disc.y)

\* C8: calculateHeatMap() returns null whenever all four mode toggles are off (so
\* a non-null result needs a toggle that is on), whatever the entity state.
NullWhenAllModesOff ==
    (Called("calculateHeatMap") /\ AllModesOff) => ret = NoHeatMap

\* C8 witness: a call with all toggles off while the disc is away from its holder
\* or has none, returning null.
NullResultSeen ==
    /\ Called("calculateHeatMap") /\ AllModesOff /\ ret = NoHeatMap
    /\ lastOp.prev \in {"throwDisc", "catchDisc", "update"}
    /\ (disc.holder = NULL \/ Position(players[1]) # << disc.x, disc.y >>)

InLength(v) == ~IsNaN(v) /\ 0 <= v /\ v <= totalLength * UnitsPerYard
InWidth(v) == ~IsNaN(v) /\ 0 <= v /\ v <= fieldWidth * UnitsPerYard
\* v brought into [0, hi]
Into(hi, v) == IF v < 0 THEN 0 ELSE IF v > hi THEN hi ELSE v

PositionsInBounds ==
    /\ \A p \in PlayerIds :
          /\ IsNaN(players[p].x) \/ InLength(players[p].x)
          /\ IsNaN(players[p].y) \/ InWidth(players[p].y)
    /\ IsNaN(disc.x) \/ InLength(disc.x)
    /\ IsNaN(disc.y) \/ InWidth(disc.y)

IsValue(v) == ~IsNaN(v) /\ 0 <= v /\ v <= ValueOne

\* C13 (as claimed): for every in-bounds point and every reachable entity state,
\* calculateCatchValue, calculateEaseAt and calculateMarkingDifficultyAt return a
\* value in [0, 1], and a cell of the coverage layer is one of 0, 0.5 and 1.
ScalarValuesInRange ==
    /\ (Called("calculateCatchValue") \/ Called("calculateEaseAt")
            \/ Called("calculateMarkingDifficultyAt")) => IsValue(ret)
    /\ Called("_getCoverageLayer") => ret \in {0, halfCovered, ValueOne}

\* the coverage value of cell c under the rule with a defender-distance penalty of 0
CoverageWithoutPenalty(c) ==
    LET cellX == CellCenterX(c)
        cellY == CellCenterY(c)
        discToSquare == Hypot(cellX, cellY, disc.x, disc.y)
        minOffenseDist == MinDistance(players, OffenderP, cellX, cellY)
        minDefenseDist == MinDistance(players, CoverageDefenseP, cellX, cellY)
    IN  IF minDefenseDist <= minOffenseDist THEN 0
        ELSE IF ~IsNaN(discToSquare) /\ 2 * minDefenseDist < discToSquare THEN halfCovered
        ELSE ValueOne

\* C14 (as claimed): a coverage cell is 0 whenever the nearest non-mark defender
\* is at most as far from the cell centre as the nearest offensive player without
\* the disc; otherwise it is 0.5 if that defender is nearer than half the distance
\* from the disc to the cell centre, and 1 if not.
CoverageRuleWithoutPenalty ==
    Called("_getCoverageLayer") => ret = CoverageWithoutPenalty(lastOp.args)

\* C15 (as claimed): calculateCatchValue(x, y) is 1 for every x <= endZoneDepth, is
\* 0 for every x >= endZoneDepth + fieldLength wherever the disc is, and for
\* y = fieldWidth / 2 does not increase with x.
CatchValueThresholds ==
    Called("calculateCatchValue") =>
        LET x == lastOp.args[1]
            y == lastOp.args[2]
        IN  /\ x <= endZoneDepth * UnitsPerYard => ret = ValueOne
            /\ x >= (endZoneDepth + fieldLength) * UnitsPerYard => ret = 0
            /\ y = (fieldWidth * UnitsPerYard) \div 2 =>
                  \A pt \in CatchPoints :
                      (pt[2] = y /\ pt[1] >= x) => calculateCatchValue(State, pt[1], y) <= ret

\* C16 (as claimed, the two ends of the ramp): with the mark vector pointing from
\* the thrower to (0, fieldWidth), calculateEaseAt is 0 when the target lies on the
\* ray from the thrower through that point, and 1 when the angle between throw
\* vector and mark vector is at least 90 degrees.
EaseAgainstFieldCorner ==
    Called("calculateEaseAt") =>
        LET mx == 0 - lastOp.args[1]
            my == fieldWidth * UnitsPerYard - lastOp.args[2]
            tx == lastOp.args[3] - lastOp.args[1]
            ty == lastOp.args[4] - lastOp.args[2]
            dotProduct == mx * tx + my * ty
            crossProduct == mx * ty - my * tx
            defined == (mx # 0 \/ my # 0) /\ (tx # 0 \/ ty # 0)
        IN  /\ (defined /\ crossProduct = 0 /\ dotProduct > 0) => ret = 0
            /\ (defined /\ dotProduct <= 0) => ret = ValueOne

ThrowerAtReference(args) ==
    args[1] = markReferenceX * UnitsPerYard /\ args[2] = markReferenceY * UnitsPerYard
TargetAtThrower(args) == args[3] = args[1] /\ args[4] = args[2]

\* C17 (as claimed): calculateEaseAt returns 1 when the thrower is at the mark
\* reference point and 0 when the target equals the thrower position (and the
\* thrower is elsewhere); calculateMarkingDifficultyAt returns a defined value in
\* [0, 1] in both cases.
ZeroLengthGuards ==
    /\ Called("calculateEaseAt") =>
          /\ ThrowerAtReference(lastOp.args) => ret = ValueOne
          /\ (TargetAtThrower(lastOp.args) /\ ~ThrowerAtReference(lastOp.args)) => ret = 0
    /\ Called("calculateMarkingDifficultyAt") =>
          ((ThrowerAtReference(lastOp.args) \/ TargetAtThrower(lastOp.args)) => IsValue(ret))

\* the velocity (vx, vy) points along (dx, dy) and has magnitude speed, up to the
\* rounding of the fixed-point numbers (one unit in the distance and in each
\* component)
VelocityToward(vx, vy, dx, dy, speed) ==
    /\ ~IsNaN(vx) /\ ~IsNaN(vy) /\ ~IsNaN(dx) /\ ~IsNaN(dy)
    /\ vx * dx >= 0 /\ vy * dy >= 0
    /\ Abs(vx * dy - vy * dx) <= Abs(dx) + Abs(dy)
    /\ ISqrt(vx * vx + vy * vy) >= speed - 2
    /\ ISqrt(vx * vx + vy * vy) <= speed + speed \div Max(1, ISqrt(dx * dx + dy * dy)) + 2

\* C18 (as claimed): throwDisc(targetX, targetY, speed) changes nothing when
\* disc.holder is null; with a holder and a target that differs from the disc
\* position, afterwards the velocity points from the disc toward the target with
\* magnitude speed, inFlight is true, the former holder's hasDisc is false,
\* disc.holder is null, and the disc position and all other players are unchanged.
ThrowDiscContract ==
    [][lastOp'.name = "throwDisc" =>
        LET tx == lastOp'.args[1]
            ty == lastOp'.args[2]
            speed == lastOp'.args[3]
            h == disc.holder
        IN  /\ h = NULL => (disc' = disc /\ players' = players)
            /\ (h # NULL /\ << tx, ty >> # << disc.x, disc.y >>) =>
                  /\ VelocityToward(disc'.vx, disc'.vy, NSub(tx, disc.x), NSub(ty, disc.y),
                                    speed)
                  /\ disc'.inFlight /\ disc'.holder = NULL
                  /\ disc'.x = disc.x /\ disc'.y = disc.y
                  /\ players' = [players EXCEPT ![h].hasDisc = FALSE]]_vars

\* the players within the catch radius of the disc
InCatchRadius(ps, d) == { i \in PlayerIds : WithinCatchRadius(ps[i], d) }

\* C19 (as claimed): when an update() tick ends in a catch and several players
\* are within the catch radius of the disc, the first of them in the player list
\* is the holder and no other player is changed by the tick.
FirstInListCatches ==
    [][(/\ lastOp'.name = "update"
        /\ disc.inFlight
        /\ disc'.holder # NULL
        /\ Cardinality(InCatchRadius(players, disc')) >= 2) =>
        LET first == CHOOSE i \in InCatchRadius(players, disc') :
                         \A j \in InCatchRadius(players, disc') : i <= j
        IN  /\ disc'.holder = first
            /\ players'[first].hasDisc
            /\ \A j \in PlayerIds \ { first } : players'[j] = players[j]]_vars

\* C20 (as claimed): an update() tick that begins with the disc in flight and
\* leaves some player within the catch radius of the integrated disc position
\* ends with the disc caught: not in flight, velocity (0, 0), and a holder whose
\* hasDisc is true; the tick on which the velocity drops below the stop
\* threshold is no exception.
CatchOnEveryFlightTick ==
    [][(/\ lastOp'.name = "update"
        /\ disc.inFlight
        /\ InCatchRadius(players', disc') # {}) =>
        /\ ~disc'.inFlight
        /\ disc'.vx = 0 /\ disc'.vy = 0
        /\ disc'.holder # NULL
        /\ players'[disc'.holder].hasDisc]_vars

\* the toggles that are on, and those whose layer calculateHeatMap() computes
ModesOn == { k \in ModeKeys : heatMapModesEnabled[k] }
LayersComputed == { k \in ModesOn : k = "markingDifficulty" => ~NoPlayerHasDisc }
FirstWithDisc == CHOOSE p \in Holders : \A q \in Holders : p <= q
HeatMapReturned == Called("calculateHeatMap") /\ ret # NoHeatMap

LayerFactors(c) ==
    [k \in ModeKeys |->
        IF k \notin LayersComputed THEN ValueOne
        ELSE LayerFactor(k, LayerValues(State, k)[c])]

ProductOfLayers ==
    Filled([c \in GridCells |->
               LET f == LayerFactors(c)
               IN  VMul(VMul(VMul(f["catch"], f["difficulty"]), f["markingDifficulty"]),
                        f["coverage"])])

\* the observed minimum and maximum of a grid: Infinity and -Infinity when no
\* cell is a number
ObservedMin(grid) ==
    IF Numbers({ grid[c] : c \in GridCells }) = {} THEN Infinity
    ELSE Least(Numbers({ grid[c] : c \in GridCells }))
ObservedMax(grid) ==
    IF Numbers({ grid[c] : c \in GridCells }) = {} THEN -Infinity
    ELSE Greatest(Numbers({ grid[c] : c \in GridCells }))

\* C22 (as claimed): each cell of the result of calculateHeatMap() is the product
\* of the computed layers' values, the difficulty layer contributing 1 - value.
\* With normalize on and min # max over the grid, every cell is
\* (v - min) / (max - min): all cells are in [0, 1], some cell is 0, some cell is
\* 1 and the order of the cells is that of the products; with min = max or
\* normalize off the products are returned as they are.
ProductThenMinMaxScaling ==
    HeatMapReturned =>
        LET raw == ProductOfLayers
            min == ObservedMin(raw)
            max == ObservedMax(raw)
        IN  IF heatMapNormalize /\ min # max
            THEN /\ \A c \in GridCells :
                      /\ IsValue(ret.values[c])
                      /\ ret.values[c] = ((raw[c] - min) * ValueOne) \div (max - min)
                 /\ \E c \in GridCells : ret.values[c] = 0
                 /\ \E c \in GridCells : ret.values[c] = ValueOne
                 /\ \A c, d \in GridCells :
                      raw[c] <= raw[d] => ret.values[c] <= ret.values[d]
            ELSE ret.values = raw

\* C23 (as claimed): every cell of the difficulty layer is max(raw / maxRaw, 0.2),
\* raw being the cell's distance from the disc over 80 and maxRaw its maximum
\* over the grid: the farthest cell has value 1 and cells near the disc 0.2.
DifficultyLayerFloored ==
    Called("_getDifficultyLayer") =>
        LET raw == Filled([c \in GridCells |->
                              calculateDifficultyAt(State, CellCenterX(c), CellCenterY(c))])
            maxRaw == ObservedMax(raw)
        IN  \A c \in GridCells :
                /\ IsValue(ret[c])
                /\ Abs(ret[c] - Max((raw[c] * ValueOne) \div maxRaw, difficultyFloor)) <= 1
                /\ raw[c] = maxRaw => ret[c] = ValueOne


\* a <= b as JavaScript compares numbers: false when either is NaN
LessEq(a, b) == ~IsNaN(a) /\ ~IsNaN(b) /\ a <= b

\* the step is a call of the operation `name`
CallOf(name) == nOps' # nOps /\ lastOp'.name = name

\* the players other than p are as they were, and p keeps its flags
OnlyMoves(p) ==
    /\ \A q \in PlayerIds \ { p } : players'[q] = players[q]
    /\ players'[p] = [players[p] EXCEPT !.x = players'[p].x, !.y = players'[p].y]

\* the unnormalized four-layer sum with player dd placed at the centre of cell c
SumWithDefenderAt(dd, c) ==
    LET st == movePlayerTo(State, dd, CellCenterX(c), CellCenterY(c))
    IN  CombinedSum([Game EXCEPT !.players = st.players, !.disc = st.disc])

\* C24: after positionDefenderOptimal(), called with a thrower, a non-mark
\* defender and an offensive player without the disc, the defender is at the
\* centre of a cell within the radius of that player whose four-layer sum with
\* the defender there is <= the sum of every other such cell and differs from the
\* sum of every such cell earlier in the loops; no other player and no flag changes
DefenderEndsAtFirstMinimum ==
    [][ (/\ CallOf("positionDefenderOptimal")
         /\ Holders # {}
         /\ FindPlayer(players, DownfieldDefenderP) # NULL
         /\ FindPlayer(players, OffenderP) # NULL)
        => LET dd == FindPlayer(players, DownfieldDefenderP)
               cells == CellsAround(players[FindPlayer(players, OffenderP)])
               sums == Filled([c \in cells |-> SumWithDefenderAt(dd, c)])
           IN  /\ \E c \in cells :
                    /\ players'[dd].x = CellCenterX(c)
                    /\ players'[dd].y = CellCenterY(c)
                    /\ \A d \in cells : LessEq(sums[c], sums[d])
                    /\ \A d \in cells : CellBefore(d, c) => sums[d] # sums[c]
               /\ OnlyMoves(dd)
               /\ UNCHANGED heatVars ]_vars

\* the four-layer product of each cell of the grid, in the current state
ProductsNow == CombinedProducts(State, FourLayers)

\* C25: after positionOffenderOptimal(), called with a thrower and an offensive
\* player without the disc, that player is at the centre of the cell of the whole
\* grid whose four-layer product in the state before the call is >= the product
\* of every other cell and differs from the product of every cell earlier in the
\* loops; no other player moves
OffenderEndsAtFirstMaximum ==
    [][ (/\ CallOf("positionOffenderOptimal")
         /\ Holders # {}
         /\ FindPlayer(players, OffenderP) # NULL)
        => LET offender == FindPlayer(players, OffenderP)
           IN  /\ \E c \in GridCells :
                    /\ players'[offender].x = CellCenterX(c)
                    /\ players'[offender].y = CellCenterY(c)
                    /\ \A d \in GridCells : LessEq(ProductsNow[d], ProductsNow[c])
                    /\ \A d \in GridCells :
                         CellBefore(d, c) => ProductsNow[d] # ProductsNow[c]
               /\ OnlyMoves(offender) ]_vars


\* C26: when no player has the disc, a call of positionDefenderOptimal() or of
\* positionOffenderOptimal() leaves every player at the position it had before
\* the call, and getCombinedHeatMapSumPreNormalized() returns null
SearchesIdleWithoutThrower ==
    [][ Holders = {}
        => /\ (CallOf("positionDefenderOptimal") \/ CallOf("positionOffenderOptimal"))
                => \A p \in PlayerIds :
                     players'[p].x = players[p].x /\ players'[p].y = players[p].y
           /\ lastOp'.name = "getCombinedHeatMapSumPreNormalized" => ret' = NoHeatMap ]_vars

DefenderSearchedWithoutThrower ==
    /\ lastOp.name = "positionDefenderOptimal"
    /\ Holders = {}
    /\ disc.holder = NULL
    /\ FindPlayer(players, DownfieldDefenderP) # NULL
    /\ FindPlayer(players, OffenderP) # NULL


\* the game with the display settings of a fresh game: every toggle off,
\* normalize on
WithFreshSettings(g) ==
    [g EXCEPT !.heatMapModesEnabled = [k \in ModeKeys |-> FALSE],
              !.heatMapNormalize = TRUE]

\* C27: a call of positionDefenderOptimal() or positionOffenderOptimal() ends
\* with the players that the same call ends with from the state that differs
\* only in heatMapModesEnabled and heatMapNormalize (every toggle off, normalize
\* on), and leaves heatMapModesEnabled and heatMapNormalize unchanged
SearchIgnoresDisplaySettings ==
    [][ /\ CallOf("positionDefenderOptimal")
            => /\ players' = positionDefenderOptimalSearch(WithFreshSettings(Game)).players
               /\ UNCHANGED heatVars
        /\ CallOf("positionOffenderOptimal")
            => /\ players' = positionOffenderOptimalSearch(WithFreshSettings(Game)).players
               /\ UNCHANGED heatVars ]_vars

DefenderSearchedWithSettingsChanged ==
    /\ lastOp.name = "positionDefenderOptimal"
    /\ (ModesOn # {} \/ ~heatMapNormalize)
    /\ Holders # {}
    /\ << players[4].x, players[4].y >> # << createExamplePlayers[4].x, createExamplePlayers[4].y >>


\* the disc has no holder and is not in flight
InertDisc == disc.holder = NULL /\ ~disc.inFlight

\* C28: from a state whose disc has no holder and is not in flight, update(dt)
\* leaves the disc's position and velocity unchanged, and after update,
\* throwDisc, movePlayerTo, positionDefenderOptimal, positionOffenderOptimal or
\* positionOffenderStack the disc still has no holder and is not in flight
InertDiscStaysInert ==
    [][ InertDisc
        => /\ lastOp'.name = "update"
                => /\ disc'.x = disc.x /\ disc'.y = disc.y
                   /\ disc'.vx = disc.vx /\ disc'.vy = disc.vy
           /\ lastOp'.name \in { "update", "throwDisc", "movePlayerTo",
                                 "positionDefenderOptimal", "positionOffenderOptimal",
                                 "positionOffenderStack" }
                => InertDisc' ]_vars

PlayerMovedOntoInertDisc ==
    /\ InertDisc
    /\ lastOp.name = "movePlayerTo"
    /\ lastOp.atDisc
    /\ lastOp.prev = "update"
    /\ players[lastOp.player].x = disc.x
    /\ players[lastOp.player].y = disc.y


\* C29: in every reachable state a player has hasDisc exactly when it is the
\* disc's holder, and the first player with hasDisc, which the heat-map layers
\* take as the thrower, is the disc's holder
PossessionInSync ==
    /\ \A p \in PlayerIds : players[p].hasDisc <=> disc.holder = p
    /\ Holders # {} => FirstWithDisc = disc.holder


\* C30: after reset() the players are the four example players with their start
\* positions and flags, the disc is at rest at (80,15) held by offense_1, both
\* scores are 0, no player is selected and isRunning is false, and
\* heatMapModesEnabled, heatMapNormalize and heatMapGridSize are as before the call
ResetRestoresFreshEntities ==
    [][ lastOp'.name = "reset"
        => /\ players' = createExamplePlayers
           /\ players'[1].id = "offense_1"
           /\ disc' = [x |-> 80 * UnitsPerYard, y |-> 15 * UnitsPerYard, vx |-> 0, vy |-> 0,
                       holder |-> 1, inFlight |-> FALSE]
           /\ session'.team1Score = 0
           /\ session'.team2Score = 0
           /\ session'.selectedPlayer = NULL
           /\ ~session'.isRunning
           /\ session'.heatMapGridSize = session.heatMapGridSize
           /\ UNCHANGED heatVars ]_vars

ResetOfChangedGame ==
    /\ lastOp.name = "reset"
    /\ lastOp.prev \in { "selectPlayer", "start" }
    /\ (ModesOn # {} \/ ~heatMapNormalize)

====
